---- MODULE Spec2Model ----
(***************************************************************************)
(* A model of src/plot.js: the scatter-plot renderer newSVGScatterPlot and *)
(* the helpers it calls.  The caller's settings object and data set are    *)
(* the heap the program can write to; one action is one call of            *)
(* newSVGScatterPlot.                                                      *)
(*                                                                         *)
(* JavaScript numbers are modelled as exact rationals n/d (d > 0) extended *)
(* with the non-finite values +Infinity (1/0), -Infinity (-1/0) and NaN    *)
(* (0/0).  The rounding of IEEE-754 doubles and the sign of zero are not   *)
(* modelled.                                                               *)
(***************************************************************************)
EXTENDS Integers, Sequences, FiniteSets, TLC

VARIABLES settings, dataSet, result, console, call, calls

vars == <<settings, dataSet, result, console, call, calls>>

-----------------------------------------------------------------------------
(* Numbers *)

Abs(k) == IF k < 0 THEN -k ELSE k

Sign(k) == IF k < 0 THEN -1 ELSE IF k > 0 THEN 1 ELSE 0

RECURSIVE GCD(_, _)
GCD(a, b) == IF b = 0 THEN a ELSE GCD(b, a % b)

\* The number n/d in lowest terms; d = 0 gives Infinity, -Infinity or NaN.
Rat(n, d) ==
    IF d = 0 THEN [n |-> Sign(n), d |-> 0]
    ELSE LET g == GCD(Abs(n), Abs(d))
         IN  [n |-> Sign(d) * (n \div g), d |-> Abs(d) \div g]

Q(k) == [n |-> k, d |-> 1]

NaN == [n |-> 0, d |-> 0]

IsNaN(a) == a.d = 0 /\ a.n = 0

IsFinite(a) == a.d # 0

\* a + b
Add(a, b) ==
    IF a.d = 0 /\ b.d = 0
    THEN (IF a.n = b.n THEN a ELSE NaN)
    ELSE Rat(a.n * b.d + b.n * a.d, a.d * b.d)

Neg(a) == [n |-> -a.n, d |-> a.d]

\* a - b
Sub(a, b) == Add(a, Neg(b))

\* a * b
Mul(a, b) == Rat(a.n * b.n, a.d * b.d)

\* a / b; a division by zero is Infinity, -Infinity or NaN, never an error
Div(a, b) == Rat(a.n * b.d * Sign(b.n), a.d * Abs(b.n))

\* a < b; every comparison with NaN is false
Less(a, b) ==
    IF IsNaN(a) \/ IsNaN(b) THEN FALSE
    ELSE IF a.d = 0 /\ b.d = 0 THEN a.n < b.n
    ELSE IF a.d = 0 THEN a.n < 0
    ELSE IF b.d = 0 THEN b.n > 0
    ELSE a.n * b.d < b.n * a.d

\* a > b
Greater(a, b) == Less(b, a)

\* a <= b
LessEq(a, b) == (~IsNaN(a)) /\ (~IsNaN(b)) /\ ~Less(b, a)

-----------------------------------------------------------------------------
(* JavaScript values *)

Undefined == [t |-> "undefined"]

Null == [t |-> "null"]

Num(a) == [t |-> "number", v |-> a]

Str(s) == [t |-> "string", v |-> s]

Bool(b) == [t |-> "boolean", v |-> b]

\* an array of numbers
Arr(s) == [t |-> "array", v |-> s]

\* a plain object whose only property is length
ObjWithLength(k) == [t |-> "object", length |-> k]

\* typeof v
TypeOf(v) ==
    IF v.t \in {"null", "array", "object"} THEN "object" ELSE v.t

\* ToBoolean(v), the test that !v negates
Truthy(v) ==
    CASE v.t = "undefined" -> FALSE
      [] v.t = "null"      -> FALSE
      [] v.t = "boolean"   -> v.v
      [] v.t = "number"    -> ~(IsNaN(v.v) \/ v.v.n = 0)
      [] v.t = "string"    -> v.v # ""
      [] OTHER             -> TRUE

\* v.length
Length(v) ==
    CASE v.t \in {"array", "string"} -> Num(Q(Len(v.v)))
      [] v.t = "object"              -> Num(Q(v.length))
      [] OTHER                       -> Undefined

\* whether for (... of v) can iterate v; if not it throws a TypeError
Iterable(v) == v.t \in {"array", "string"}

\* The values v[1], v[2], ... as the numbers that comparison and arithmetic
\* coerce them to.  Strings are drawn from letters only, and a letter
\* coerces to NaN.
Items(v) ==
    IF v.t = "array" THEN v.v ELSE [i \in 1..Len(v.v) |-> NaN]

-----------------------------------------------------------------------------
(* Settings *)

\* the keys of defaultSettings, in declaration order
SettingsKeys ==
    <<"font", "fontSize", "width", "height", "legend", "xLabel", "yLabel",
      "grid", "xMax", "xMin", "yMax", "yMin", "pointSize", "xDecimalPlaces",
      "yDecimalPlaces", "graphAxisMarksInterval", "graphAxisMarksThickness",
      "graphFrameThickness", "graphFrameSetback", "biggerMarks",
      "smallerMarks">>

KeySet == {SettingsKeys[i] : i \in 1..Len(SettingsKeys)}

defaultSettings ==
    [font |-> Str("SourceSansPro-Regular"),
     fontSize |-> Num(Q(16)),
     width |-> Num(Q(700)),
     height |-> Num(Q(560)),
     legend |-> Bool(FALSE),
     xLabel |-> Str("x axis"),
     yLabel |-> Str("y axis"),
     grid |-> Bool(FALSE),
     xMax |-> Num(Q(0)),
     xMin |-> Num(Q(0)),
     yMax |-> Num(Q(0)),
     yMin |-> Num(Q(0)),
     pointSize |-> Num(Q(2)),
     xDecimalPlaces |-> Num(Q(0)),
     yDecimalPlaces |-> Num(Q(0)),
     graphAxisMarksInterval |-> Num(Q(6)),
     graphAxisMarksThickness |-> Num(Q(2)),
     graphFrameThickness |-> Num(Q(2)),
     graphFrameSetback |-> Num(Q(4)),
     biggerMarks |-> Bool(TRUE),
     smallerMarks |-> Bool(FALSE)]

\* settings[key]: a property the object does not have reads as undefined
Get(obj, key) == IF key \in DOMAIN obj.props THEN obj.props[key] ELSE Undefined

\* an object with the given properties
Object(props) == [t |-> "object", props |-> props]

\* verifySettings with the type test dropped
verifySettingsNoTypeCheck(s) ==
    IF ~Truthy(s) THEN [threw |-> FALSE, value |-> defaultSettings]
    ELSE [threw |-> FALSE,
          value |-> [k \in KeySet |->
                        IF ~Truthy(Get(s, k)) THEN defaultSettings[k]
                        ELSE Get(s, k)]]

\* verifySettings(settings): the verified settings, or the Error thrown at the
\* first key whose truthy value has another type than its default
verifySettings(s) ==
    IF ~Truthy(s) THEN [threw |-> FALSE, value |-> defaultSettings]
    ELSE IF \E k \in KeySet :
               /\ Truthy(Get(s, k))
               /\ TypeOf(Get(s, k)) # TypeOf(defaultSettings[k])
         THEN [threw |-> TRUE, error |-> "Invalid settings!"]
         ELSE [threw |-> FALSE,
               value |-> [k \in KeySet |->
                             IF ~Truthy(Get(s, k)) THEN defaultSettings[k]
                             ELSE Get(s, k)]]

-----------------------------------------------------------------------------
(* Series validation *)

HexDigits ==
    <<"0", "1", "2", "3", "4", "5", "6", "7", "8", "9",
      "a", "b", "c", "d", "e", "f">>

\* k.toString(16) for an integer k >= 0
RECURSIVE toString16(_)
toString16(k) ==
    IF k < 16 THEN HexDigits[k + 1]
    ELSE toString16(k \div 16) \o HexDigits[(k % 16) + 1]

\* s.padStart(len, c)
RECURSIVE padStart(_, _, _)
padStart(s, len, c) == IF Len(s) >= len THEN s ELSE padStart(c \o s, len, c)

\* getRandomHexColor(), with randomNumber = Math.floor(Math.random() * 16777215)
getRandomHexColor(randomNumber) ==
    "#" \o padStart(toString16(randomNumber), 6, "0")

\* !v
Not(v) == Bool(~Truthy(v))

\* v instanceof Array
InstanceOfArray(v) == v.t = "array"

\* obj with obj[key] = val
Put(obj, key, val) ==
    Object([k \in (DOMAIN obj.props) \cup {key} |->
               IF k = key THEN val ELSE obj.props[k]])

\* verifyData(data): throws, or writes fill and color into data and returns
\* that same object.  !data.x instanceof Array is (!data.x) instanceof Array.
verifyData(data, randomNumber) ==
    IF \/ ~Truthy(data)
       \/ ~Truthy(Get(data, "x"))
       \/ ~Truthy(Get(data, "y"))
       \/ InstanceOfArray(Not(Get(data, "x")))
       \/ InstanceOfArray(Not(Get(data, "y")))
       \/ Length(Get(data, "x")) # Length(Get(data, "y"))
    THEN [threw |-> TRUE, error |-> "invalid data structure!"]
    ELSE LET fill == Get(data, "fill")
             d1 == IF ~Truthy(fill) \/ TypeOf(fill) # "boolean"
                   THEN Put(data, "fill", Bool(FALSE)) ELSE data
             d2 == IF ~Truthy(Get(d1, "color"))
                   THEN Put(d1, "color", Str(getRandomHexColor(randomNumber)))
                   ELSE d1
         IN  [threw |-> FALSE, value |-> d2]

\* The loop of verifyDataSet from series i on.  heap is the caller's array
\* after the writes made so far; the verified list holds the same objects.
RECURSIVE verifyDataSetFrom(_, _, _)
verifyDataSetFrom(series, i, rnd) ==
    IF i > Len(series) THEN [threw |-> FALSE, heap |-> series]
    ELSE LET r == verifyData(series[i], rnd[i])
         IN  IF r.threw
             THEN [threw |-> TRUE, error |-> r.error, heap |-> series]
             ELSE verifyDataSetFrom([series EXCEPT ![i] = r.value], i + 1, rnd)

\* verifyDataSet(dataSet); rnd[i] is the random number drawn for series i.
\* !dataSet instanceof Array is never true, so a data set that is no array
\* fails only when the loop tries to iterate it.
verifyDataSet(ds, rnd) ==
    IF InstanceOfArray(Not(ds))
    THEN [threw |-> TRUE, error |-> "Invalid data set!", heap |-> ds]
    ELSE IF ~Iterable(ds)
    THEN [threw |-> TRUE, error |-> "TypeError", heap |-> ds]
    ELSE LET r == verifyDataSetFrom(ds.v, 1, rnd)
         IN  IF r.threw
             THEN [threw |-> TRUE, error |-> r.error, heap |-> Arr(r.heap)]
             ELSE [threw |-> FALSE, heap |-> Arr(r.heap), value |-> r.heap]

-----------------------------------------------------------------------------
(* Extent *)

\* one for loop of defineMaxAndMinValuesForData over items[i..], widening the
\* running values hi (the maximum) and lo (the minimum)
RECURSIVE Scan(_, _, _, _)
Scan(items, i, hi, lo) ==
    IF i > Len(items) THEN [max |-> hi, min |-> lo]
    ELSE Scan(items, i + 1,
              IF Greater(items[i], hi) THEN items[i] ELSE hi,
              IF Less(items[i], lo) THEN items[i] ELSE lo)

\* the outer loop of defineMaxAndMinValuesForData from series i on
RECURSIVE ScanSeries(_, _, _)
ScanSeries(series, i, values) ==
    IF i > Len(series) THEN values
    ELSE LET sx == Scan(Items(Get(series[i], "x")), 1, values.xMax, values.xMin)
             sy == Scan(Items(Get(series[i], "y")), 1, values.yMax, values.yMin)
         IN  ScanSeries(series, i + 1,
                        [xMax |-> sx.max, xMin |-> sx.min,
                         yMax |-> sy.max, yMin |-> sy.min])

\* defineMaxAndMinValuesForData that starts from the first data value instead
\* of the settings (the settings replaced by the scan, not widened by it)
defineMaxAndMinValuesIgnoringSeeds(series, verifiedSettings) ==
    IF \E i \in 1..Len(series) :
           ~Iterable(Get(series[i], "x")) \/ ~Iterable(Get(series[i], "y"))
    THEN [threw |-> TRUE, error |-> "TypeError"]
    ELSE LET xs == Items(Get(series[1], "x"))
             ys == Items(Get(series[1], "y"))
             seed == IF Len(series) > 0 /\ Len(xs) > 0 /\ Len(ys) > 0
                     THEN [xMax |-> xs[1], xMin |-> xs[1],
                           yMax |-> ys[1], yMin |-> ys[1]]
                     ELSE [xMax |-> verifiedSettings.xMax.v,
                           xMin |-> verifiedSettings.xMin.v,
                           yMax |-> verifiedSettings.yMax.v,
                           yMin |-> verifiedSettings.yMin.v]
         IN  [threw |-> FALSE, value |-> ScanSeries(series, 1, seed)]

\* defineMaxAndMinValuesForData(dataSet, verifiedSettings): for...of throws a
\* TypeError on an x or y that is not iterable
defineMaxAndMinValuesForData(series, verifiedSettings) ==
    IF \E i \in 1..Len(series) :
           ~Iterable(Get(series[i], "x")) \/ ~Iterable(Get(series[i], "y"))
    THEN [threw |-> TRUE, error |-> "TypeError"]
    ELSE [threw |-> FALSE,
          value |-> ScanSeries(series, 1,
                               [xMax |-> verifiedSettings.xMax.v,
                                xMin |-> verifiedSettings.xMin.v,
                                yMax |-> verifiedSettings.yMax.v,
                                yMin |-> verifiedSettings.yMin.v])]

-----------------------------------------------------------------------------
(* Frame and points *)

\* createGraphFrame(width, height, graphFrameSetback, graphFrameThickness)
createGraphFrame(width, height, graphFrameSetback, graphFrameThickness) ==
    LET setback == IF Greater(height, width)
                   THEN Div(Mul(height, graphFrameSetback), Q(100))
                   ELSE Div(Mul(Mul(Q(2), width), graphFrameSetback), Q(100))
        graphX0 == Mul(Q(2), setback)
        graphY0 == Add(graphFrameThickness, setback)
        graphWidth == Sub(width, Mul(Q(2), graphX0))
        graphHeight == Sub(height, Mul(Q(2), graphY0))
    IN  [frame |-> [tag |-> "rect", name |-> "frame", id |-> "frame",
                    x |-> graphX0, y |-> graphY0,
                    width |-> graphWidth, height |-> graphHeight,
                    fill |-> "white", stroke |-> "black",
                    strokeWidth |-> graphFrameThickness],
         graphX0 |-> graphX0, graphY0 |-> graphY0,
         graphHeight |-> graphHeight, graphWidth |-> graphWidth]

\* the circle createGraphPoints makes for point i (from 1) of data
GraphPoint(pointSize, mm, graphX0, graphY0, graphHeight, graphWidth, data, i) ==
    LET xConversionFactor == Div(graphWidth, Sub(mm.xMax, mm.xMin))
        yConversionFactor == Div(graphHeight, Sub(mm.yMax, mm.yMin))
        dx == Items(Get(data, "x"))[i]
        dy == Items(Get(data, "y"))[i]
    IN  [tag |-> "circle", name |-> "point", class |-> "point",
         cx |-> Add(graphX0, Mul(Sub(dx, mm.xMin), xConversionFactor)),
         cy |-> Sub(graphY0, Mul(Sub(dy, mm.yMax), yConversionFactor)),
         r |-> IF ~Truthy(Get(data, "pointSize")) THEN pointSize
               ELSE Get(data, "pointSize"),
         fill |-> IF Truthy(Get(data, "fill")) THEN Get(data, "color")
                  ELSE Str("white"),
         stroke |-> Get(data, "color"),
         strokeWidth |-> Q(2)]

\* createGraphPoints with the y axis not inverted
createGraphPointsNotInverted(pointSize, mm, graphX0, graphY0, graphHeight, graphWidth, data) ==
    [i \in 1..Length(Get(data, "x")).v.n |->
        LET p == GraphPoint(pointSize, mm, graphX0, graphY0, graphHeight,
                            graphWidth, data, i)
        IN  [p EXCEPT !.cy =
                Add(graphY0,
                    Mul(Sub(Items(Get(data, "y"))[i], mm.yMin),
                        Div(graphHeight, Sub(mm.yMax, mm.yMin))))]]

\* createGraphPoints(pointSize, maxAndMinValues, graphX0, graphY0,
\* graphHeight, graphWidth, data): one circle per index below data.x.length
createGraphPoints(pointSize, mm, graphX0, graphY0, graphHeight, graphWidth, data) ==
    [i \in 1..Length(Get(data, "x")).v.n |->
        GraphPoint(pointSize, mm, graphX0, graphY0, graphHeight, graphWidth,
                   data, i)]

-----------------------------------------------------------------------------
(* Axis marks, grid, tick texts and labels *)

\* a line element; name is the source variable that holds it
Line(name, axis, x1, x2, y1, y2, stroke, strokeWidth) ==
    [tag |-> "line", name |-> name, axis |-> axis,
     x1 |-> x1, x2 |-> x2, y1 |-> y1, y2 |-> y2,
     stroke |-> stroke, strokeWidth |-> strokeWidth]

biggerMarkLenght == 10

smallerMarkLenght == biggerMarkLenght \div 2

\* the first loop of createGraphAxisMarks from index i on
RECURSIVE XAxisMarks(_, _, _, _, _, _)
XAxisMarks(i, position, graphY0, graphHeight, graphWidth, interval) ==
    IF ~Less(Q(i), interval) THEN <<>>
    ELSE LET bottom == Add(graphY0, graphHeight)
             half == Add(position, Div(Div(graphWidth, interval), Q(2)))
         IN  <<Line("biggerMark", "x", position, position,
                    Sub(bottom, Q(biggerMarkLenght)), bottom, "black", Q(2)),
               Line("smallerMark", "x", half, half,
                    Sub(bottom, Q(smallerMarkLenght)), bottom, "black", Q(2))>>
             \o XAxisMarks(i + 1, Add(position, Div(graphWidth, interval)),
                           graphY0, graphHeight, graphWidth, interval)

\* the second loop of createGraphAxisMarks from index i on
RECURSIVE YAxisMarks(_, _, _, _, _)
YAxisMarks(i, position, graphX0, graphHeight, interval) ==
    IF ~Less(Q(i), interval) THEN <<>>
    ELSE LET half == Add(position, Div(Div(graphHeight, interval), Q(2)))
         IN  <<Line("biggerMark", "y", graphX0,
                    Add(graphX0, Q(biggerMarkLenght)), position, position,
                    "black", Q(2)),
               Line("smallerMark", "y", graphX0,
                    Add(graphX0, Q(smallerMarkLenght)), half, half,
                    "black", Q(2))>>
             \o YAxisMarks(i + 1, Add(position, Div(graphHeight, interval)),
                           graphX0, graphHeight, interval)

\* createGraphAxisMarks with both loops run once more (i <= axisMarksInterval)
createGraphAxisMarksOneMore(graphX0, graphY0, graphHeight, graphWidth, axisMarksInterval) ==
    XAxisMarks(0, graphX0, graphY0, graphHeight, graphWidth,
               Add(axisMarksInterval, Q(1)))
    \o YAxisMarks(0, graphY0, graphX0, graphHeight,
                  Add(axisMarksInterval, Q(1)))

\* createGraphAxisMarks(graphX0, graphY0, graphHeight, graphWidth,
\* axisMarksInterval)
createGraphAxisMarks(graphX0, graphY0, graphHeight, graphWidth, axisMarksInterval) ==
    XAxisMarks(0, graphX0, graphY0, graphHeight, graphWidth, axisMarksInterval)
    \o YAxisMarks(0, graphY0, graphX0, graphHeight, axisMarksInterval)

\* a dashed grid line
GridLine(name, axis, x1, x2, y1, y2, stroke) ==
    [tag |-> "line", name |-> name, axis |-> axis,
     x1 |-> x1, x2 |-> x2, y1 |-> y1, y2 |-> y2,
     stroke |-> stroke, strokeWidth |-> Q(1), strokeDasharray |-> Q(5)]

\* the first loop of createGraphAxisGrid from index i on
RECURSIVE XGrid(_, _, _, _, _, _)
XGrid(i, position, graphY0, graphHeight, graphWidth, interval) ==
    IF ~Less(Q(i), interval) THEN <<>>
    ELSE <<GridLine("xGrid", "x", position, position, graphY0,
                    Add(graphY0, graphHeight), "gray")>>
         \o XGrid(i + 1, Add(position, Div(graphWidth, interval)),
                  graphY0, graphHeight, graphWidth, interval)

\* the second loop of createGraphAxisGrid from index i on
RECURSIVE YGrid(_, _, _, _, _, _)
YGrid(i, position, graphX0, graphHeight, graphWidth, interval) ==
    IF ~Less(Q(i), interval) THEN <<>>
    ELSE <<GridLine("yGrid", "y", graphX0, Add(graphX0, graphWidth),
                    position, position, "black")>>
         \o YGrid(i + 1, Add(position, Div(graphHeight, interval)),
                  graphX0, graphHeight, graphWidth, interval)

\* createGraphAxisGrid(graphX0, graphY0, graphHeight, graphWidth,
\* axisMarksInterval)
createGraphAxisGrid(graphX0, graphY0, graphHeight, graphWidth, axisMarksInterval) ==
    XGrid(0, graphX0, graphY0, graphHeight, graphWidth, axisMarksInterval)
    \o YGrid(0, graphY0, graphX0, graphHeight, graphWidth, axisMarksInterval)

RECURSIVE Pow10(_)
Pow10(f) == IF f = 0 THEN 1 ELSE 10 * Pow10(f - 1)

\* ToIntegerOrInfinity of a finite number: truncation towards zero
Trunc(a) == Sign(a.n) * (Abs(a.n) \div a.d)

\* whether number.toFixed(digits) throws a RangeError
ToFixedThrows(digits) ==
    IF IsFinite(digits) THEN Trunc(digits) < 0 \/ Trunc(digits) > 100
    ELSE ~IsNaN(digits)

\* number.toFixed(digits) as the number its decimal string denotes: number
\* rounded to Trunc(digits) decimals, a tie rounded away from zero.  A
\* non-finite number prints as itself; NaN digits count as 0.
toFixed(number, digits) ==
    IF ~IsFinite(number) THEN number
    ELSE LET f == IF IsNaN(digits) THEN 0 ELSE Trunc(digits)
             scaled == Abs(number.n) * Pow10(f)
             n == (2 * scaled + number.d) \div (2 * number.d)
         IN  Rat(Sign(number.n) * n, Pow10(f))

\* a tick-value text element; number is the value of the loop variable number
\* that textContent was formatted from
TickText(axis, x, y, s, number, digits) ==
    [tag |-> "text", name |-> "text", axis |-> axis, x |-> x, y |-> y,
     textAnchor |-> "middle", fontFamily |-> s.font, fontSize |-> s.fontSize,
     number |-> number,
     textContent |-> toFixed(number, digits)]

\* the first loop of createGraphAxisText from index i on
RECURSIVE XAxisText(_, _, _, _, _, _, _, _)
XAxisText(i, position, number, graphY0, graphHeight, graphWidth, s, xInterval) ==
    IF ~LessEq(Q(i), s.graphAxisMarksInterval.v) THEN <<>>
    ELSE <<TickText("x", position,
                    Add(Add(graphY0, graphHeight), Mul(s.fontSize.v, Q(2))),
                    s, number, s.xDecimalPlaces.v)>>
         \o XAxisText(i + 1,
                      Add(position, Div(graphWidth, s.graphAxisMarksInterval.v)),
                      Add(number, xInterval),
                      graphY0, graphHeight, graphWidth, s, xInterval)

\* the second loop of createGraphAxisText from index i on
RECURSIVE YAxisText(_, _, _, _, _, _, _)
YAxisText(i, position, number, graphX0, graphHeight, s, yInterval) ==
    IF ~LessEq(Q(i), s.graphAxisMarksInterval.v) THEN <<>>
    ELSE <<TickText("y", Sub(graphX0, Mul(s.fontSize.v, Q(3))),
                    Add(position, Div(s.fontSize.v, Q(2))),
                    s, number, s.yDecimalPlaces.v)>>
         \o YAxisText(i + 1,
                      Add(position, Div(graphHeight, s.graphAxisMarksInterval.v)),
                      Sub(number, yInterval),
                      graphX0, graphHeight, s, yInterval)

\* createGraphAxisText with the y numbers counted up from yMin instead of down
\* from yMax
createGraphAxisTextAscendingY(graphX0, graphY0, graphHeight, graphWidth, s, mm) ==
    LET n == s.graphAxisMarksInterval.v
        runs == LessEq(Q(0), n)
    IN  IF runs /\ (ToFixedThrows(s.xDecimalPlaces.v)
                      \/ ToFixedThrows(s.yDecimalPlaces.v))
        THEN [threw |-> TRUE, error |-> "RangeError"]
        ELSE [threw |-> FALSE,
              value |->
                 XAxisText(0, graphX0, mm.xMin, graphY0, graphHeight,
                           graphWidth, s, Div(Sub(mm.xMax, mm.xMin), n))
                 \o YAxisText(0, graphY0, mm.yMin, graphX0, graphHeight, s,
                              Div(Sub(mm.yMin, mm.yMax), n))]

\* createGraphAxisText(graphX0, graphY0, graphHeight, graphWidth,
\* verifiedSettings, maxAndMinValues); toFixed throws in the first iteration
\* that runs when the decimal places are out of range
createGraphAxisText(graphX0, graphY0, graphHeight, graphWidth, s, mm) ==
    LET n == s.graphAxisMarksInterval.v
        runs == LessEq(Q(0), n)
    IN  IF runs /\ (ToFixedThrows(s.xDecimalPlaces.v)
                      \/ ToFixedThrows(s.yDecimalPlaces.v))
        THEN [threw |-> TRUE, error |-> "RangeError"]
        ELSE [threw |-> FALSE,
              value |->
                 XAxisText(0, graphX0, mm.xMin, graphY0, graphHeight,
                           graphWidth, s, Div(Sub(mm.xMax, mm.xMin), n))
                 \o YAxisText(0, graphY0, mm.yMax, graphX0, graphHeight, s,
                              Div(Sub(mm.yMax, mm.yMin), n))]

\* createGraphAxisLabel(graphX0, graphY0, graphHeight, graphWidth,
\* verifiedSettings)
createGraphAxisLabel(graphX0, graphY0, graphHeight, graphWidth, s) ==
    LET size == Div(Mul(s.fontSize.v, Q(6)), Q(5))
        x1 == Add(graphX0, Div(graphWidth, Q(2)))
        y1 == Sub(Add(Mul(Q(2), graphY0), graphHeight), Div(s.fontSize.v, Q(2)))
        x2 == Sub(Sub(graphX0, Div(graphX0, Q(2))), s.fontSize.v)
        y2 == Add(graphY0, Div(graphHeight, Q(2)))
    IN  <<[tag |-> "text", name |-> "xAxisLabel", axis |-> "x",
           x |-> x1, y |-> y1, textAnchor |-> "middle", fontWeight |-> "bold",
           fontFamily |-> s.font, fontSize |-> size, textContent |-> s.xLabel],
          [tag |-> "text", name |-> "yAxisLabel", axis |-> "y",
           x |-> x2, y |-> y2, textAnchor |-> "middle", fontWeight |-> "bold",
           fontFamily |-> s.font, fontSize |-> size,
           transform |-> <<"rotate", Q(-90), x2, y2>>,
           textContent |-> s.yLabel]>>

-----------------------------------------------------------------------------
(* The render entry point *)

\* the loop over verifiedDataSet that pushes the points of series i, i+1, ...
RECURSIVE AllPoints(_, _, _, _, _)
AllPoints(series, i, s, mm, f) ==
    IF i > Len(series) THEN <<>>
    ELSE createGraphPoints(s.pointSize, mm, f.graphX0, f.graphY0,
                           f.graphHeight, f.graphWidth, series[i])
         \o AllPoints(series, i + 1, s, mm, f)

\* the pushes into elements with the points pushed before the marks
PushElementsPointsFirst(frame, marks, grid, grids, points, texts, labels) ==
    <<frame>> \o points \o marks
    \o (IF Truthy(grid) THEN grids ELSE <<>>) \o texts \o labels

\* the pushes into elements, in the order newSVGScatterPlot makes them
PushElements(frame, marks, grid, grids, points, texts, labels) ==
    <<frame>> \o marks \o (IF Truthy(grid) THEN grids ELSE <<>>)
    \o points \o texts \o labels

\* The rest of the try block once createGraphFrame has returned f: the
\* elements are made and pushed, appended to the svg, and the handle returned.
AfterFrame(s, heap, series, mm, width, height, f, texts) ==
    IF texts.threw
    THEN [threw |-> TRUE, error |-> texts.error,
          stage |-> "createGraphAxisText", heap |-> heap,
          verifiedSettings |-> s, maxAndMinValues |-> mm,
          graphX0 |-> f.graphX0, graphY0 |-> f.graphY0,
          graphHeight |-> f.graphHeight, graphWidth |-> f.graphWidth]
    ELSE [threw |-> FALSE, stage |-> "return", heap |-> heap,
          verifiedSettings |-> s, maxAndMinValues |-> mm,
          graphX0 |-> f.graphX0, graphY0 |-> f.graphY0,
          graphHeight |-> f.graphHeight, graphWidth |-> f.graphWidth,
          value |->
             [t |-> "object",
              svg |->
                 [tag |-> "svg",
                  viewBox |-> <<Q(0), Q(0), width, height>>,
                  xlms |-> "http://www.w3.org/2000/svg",
                  children |->
                     PushElements(
                        f.frame,
                        createGraphAxisMarks(f.graphX0, f.graphY0,
                            f.graphHeight, f.graphWidth,
                            s.graphAxisMarksInterval.v),
                        s.grid,
                        createGraphAxisGrid(f.graphX0, f.graphY0,
                            f.graphHeight, f.graphWidth,
                            s.graphAxisMarksInterval.v),
                        AllPoints(series, 1, s, mm, f),
                        texts.value,
                        createGraphAxisLabel(f.graphX0, f.graphY0,
                            f.graphHeight, f.graphWidth, s))]]]

\* the try block from the call of createGraphAxisMarks on, f being what
\* createGraphFrame returned
AfterCreateGraphFrame(s, heap, series, mm, width, height, f) ==
    AfterFrame(s, heap, series, mm, width, height, f,
               createGraphAxisText(f.graphX0, f.graphY0, f.graphHeight,
                                   f.graphWidth, s, mm))

\* the try block from the computation of width and height on
AfterExtent(s, heap, series, mm, width, height) ==
    AfterCreateGraphFrame(s, heap, series, mm, width, height,
        createGraphFrame(width, height, s.graphFrameSetback.v,
                         s.graphFrameThickness.v))

\* the try block from the call of defineMaxAndMinValuesForData on
AfterVerifyDataSet(s, heap, series, mmr) ==
    IF mmr.threw
    THEN [threw |-> TRUE, error |-> mmr.error,
          stage |-> "defineMaxAndMinValuesForData", heap |-> heap,
          verifiedSettings |-> s]
    ELSE AfterExtent(s, heap, series, mmr.value,
                     Add(s.width.v, Mul(Q(6), s.fontSize.v)),
                     Add(s.height.v, Mul(Q(5), s.fontSize.v)))

\* the try block from the call of verifyDataSet on
AfterVerifySettings(s, vd) ==
    IF vd.threw
    THEN [threw |-> TRUE, error |-> vd.error, stage |-> "verifyDataSet",
          heap |-> vd.heap, verifiedSettings |-> s]
    ELSE AfterVerifyDataSet(s, vd.heap, vd.value,
                            defineMaxAndMinValuesForData(vd.value, s))

\* The try block of newSVGScatterPlot.  stage names the call that threw;
\* heap is the caller's data set after the writes of verifyData.
TryBlock(s0, ds0, rnd, vs) ==
    IF vs.threw
    THEN [threw |-> TRUE, error |-> vs.error, stage |-> "verifySettings",
          heap |-> ds0]
    ELSE AfterVerifySettings(vs.value, verifyDataSet(ds0, rnd))

\* a catch block that throws the error on to the caller
CatchRethrow(o) ==
    [completion |-> IF o.threw THEN "throw" ELSE "return",
     value |-> IF o.threw THEN Undefined ELSE o.value,
     logged |-> <<>>,
     locals |-> o]

\* The catch block of newSVGScatterPlot: the error is logged and the function
\* falls off its end, so the call returns undefined.
Catch(o) ==
    [completion |-> "return",
     value |-> IF o.threw THEN Undefined ELSE o.value,
     logged |-> IF o.threw THEN <<o.error>> ELSE <<>>,
     locals |-> o]

\* newSVGScatterPlot(settings, dataSet)
newSVGScatterPlot(s0, ds0, rnd) ==
    Catch(TryBlock(s0, ds0, rnd, verifySettings(s0)))

-----------------------------------------------------------------------------
(* The inputs a caller passes *)

MaxLen == 2

MaxVal == 2

MaxSeries == 2

MaxInterval == 4

MaxCalls == 2

\* the exclusive upper limit of the random colour number
RandomLimit == 16777215

RandomNumbers == {0, RandomLimit - 1}

\* values of every kind, for any settings key
AnyValues ==
    {Undefined, Null, Num(Q(0)), Num(Q(3)), Num(NaN), Str(""), Str("abc"),
     Bool(FALSE), Bool(TRUE)}

\* objects that set one key, a key of defaultSettings or an unrecognized one
OneKeySettings ==
    {Object([k \in {key} |-> v]) : key \in KeySet \cup {"title"}, v \in AnyValues}

\* objects that set the options the frame is computed from
FrameSettings ==
    {Object(r) :
        r \in [width : {Undefined, Num(Q(100))},
               height : {Undefined, Num(Q(900))},
               fontSize : {Undefined, Num(Q(1))},
               graphFrameThickness : {Undefined, Num(Q(40))},
               graphFrameSetback : {Undefined, Num(Q(1)), Num(Q(13)),
                                    Num(Q(49))}]}

\* objects that set the options the axis decoration is computed from
AxisSettings ==
    {Object(r) :
        r \in [graphAxisMarksInterval :
                   {Undefined} \cup {Num(Q(n)) : n \in 1..MaxInterval},
               grid : {Undefined, Bool(TRUE)},
               smallerMarks : {Undefined, Bool(TRUE)},
               xDecimalPlaces : {Undefined, Num(Q(1)), Num(Q(101))},
               yMin : {Undefined, Num(Q(-5))}]}

AllSettings == {Undefined} \cup OneKeySettings \cup FrameSettings \cup AxisSettings

CoreSettings ==
    {Undefined,
     Object([grid |-> Bool(TRUE), graphAxisMarksInterval |-> Num(Q(2)),
             yMin |-> Num(Q(-5)), xMax |-> Num(Q(1)), title |-> Str("t")]),
     Object([width |-> Str("wide")])}

\* the arrays of at most MaxLen numbers from -1..MaxVal
Arrays ==
    UNION {{Arr(a) : a \in [1..len -> {Q(k) : k \in -1..MaxVal}]} :
              len \in 0..MaxLen}

\* the array 0, 1, ..., len - 1
Ramp(len) == Arr([i \in 1..len |-> Q(i - 1)])

\* what else a caller can pass as x or y
OtherShapes ==
    {Undefined, Str(""), Str("a"), Str("ab"), ObjWithLength(1),
     ObjWithLength(2), Num(Q(5)), Arr(<<>>), Arr(<<Q(1)>>), Arr(<<Q(0), Q(2)>>)}

\* series of numbers: any array on one axis, a ramp of its length on the other
ValueSeries ==
    {Object([x |-> a, y |-> Ramp(Len(a.v))]) : a \in Arrays}
    \cup {Object([x |-> Ramp(Len(a.v)), y |-> a]) : a \in Arrays}

ShapeSeries == {Object([x |-> a, y |-> b]) : a \in OtherShapes, b \in OtherShapes}

StyledSeries ==
    {Object(r) :
        r \in [x : {Arr(<<Q(0), Q(2)>>)}, y : {Arr(<<Q(1), Q(-1)>>)},
               color : {Undefined, Str("red")},
               fill : {Undefined, Bool(TRUE), Str("yes")},
               pointSize : {Undefined, Num(Q(3))}]}

\* the series that data sets of several series are made of
PoolSeries ==
    {Null,
     Object([x |-> Arr(<<Q(0), Q(2)>>), y |-> Arr(<<Q(0), Q(2)>>)]),
     Object([x |-> Arr(<<Q(1)>>), y |-> Arr(<<Q(-1)>>),
             color |-> Str("red"), fill |-> Bool(TRUE)]),
     Object([x |-> Str("ab"), y |-> Str("cd")]),
     Object([x |-> Arr(<<Q(1)>>), y |-> Arr(<<Q(1), Q(2)>>)])}

AllDataSets ==
    {Undefined, Arr(<<>>)}
    \cup {Arr(<<d>>) : d \in ValueSeries \cup ShapeSeries \cup StyledSeries \cup {Null}}
    \cup UNION {{Arr(a) : a \in [1..len -> PoolSeries]} : len \in 2..MaxSeries}

CoreDataSets ==
    {Arr(<<Object([x |-> Arr(<<Q(0), Q(2)>>), y |-> Arr(<<Q(0), Q(2)>>)]),
           Object([x |-> Arr(<<Q(1)>>), y |-> Arr(<<Q(-1)>>),
                   color |-> Str("red"), fill |-> Bool(TRUE)])>>),
     Arr(<<Object([x |-> Arr(<<Q(1)>>), y |-> Arr(<<Q(1), Q(2)>>)])>>)}

-----------------------------------------------------------------------------
(* The state machine *)

\* the number of series verifyDataSet may draw a colour for
SeriesCount(ds) == IF ds.t = "array" THEN Len(ds.v) ELSE 0

Init ==
    /\ \/ settings \in AllSettings /\ dataSet \in CoreDataSets
       \/ settings \in CoreSettings /\ dataSet \in AllDataSets
    /\ result = [completion |-> "none"]
    /\ console = <<>>
    /\ call = [stage |-> "none"]
    /\ calls = 0

\* The caller calls plot.newSVGScatterPlot(settings, dataSet) with the objects
\* it holds.
NewSVGScatterPlot ==
    /\ calls < MaxCalls
    /\ \E rnd \in [1..SeriesCount(dataSet) -> RandomNumbers] :
          \E o \in {newSVGScatterPlot(settings, dataSet, rnd)} :
              /\ result' = [completion |-> o.completion, value |-> o.value]
              /\ console' = console \o o.logged
              /\ call' = [k \in (DOMAIN o.locals) \ {"value"} |-> o.locals[k]]
              /\ dataSet' = o.locals.heap
    /\ calls' = calls + 1
    /\ UNCHANGED settings

Next == NewSVGScatterPlot

Spec == Init /\ [][Next]_vars

-----------------------------------------------------------------------------
(* What the claims speak of *)

\* the last call returned a plot handle
Rendered == result.completion = "return" /\ result.value.t = "object"

\* the primitives of the returned document, in document order
Elements == result.value.svg.children

\* the elements e of the document with P(e), in document order
Select(P(_)) == SelectSeq(Elements, P)

Markers == Select(LAMBDA e : e.tag = "circle")

\* the number of elements a source variable and axis loop produced
Count(name, axis) ==
    Cardinality({i \in 1..Len(Elements) :
                    Elements[i].name = name /\ Elements[i].axis = axis})

\* the data points of the caller's data set as <<series, index>>, series by
\* series and index by index
RECURSIVE PointsFrom(_)
PointsFrom(i) ==
    IF i > Len(dataSet.v) THEN <<>>
    ELSE [j \in 1..Len(Items(Get(dataSet.v[i], "x"))) |-> <<i, j>>]
         \o PointsFrom(i + 1)

DataPoints == PointsFrom(1)

PointX(p) == Items(Get(dataSet.v[p[1]], "x"))[p[2]]

PointY(p) == Items(Get(dataSet.v[p[1]], "y"))[p[2]]

\* every x and y of the caller's data set is an array of numbers
AllNumeric ==
    /\ dataSet.t = "array"
    /\ \A i \in 1..Len(dataSet.v) :
          /\ dataSet.v[i].t = "object"
          /\ Get(dataSet.v[i], "x").t = "array"
          /\ Get(dataSet.v[i], "y").t = "array"

\* the extent the last call computed has a span on both axes
NonDegenerate ==
    /\ call.maxAndMinValues.xMax # call.maxAndMinValues.xMin
    /\ call.maxAndMinValues.yMax # call.maxAndMinValues.yMin

\* C1: in a render with a non-degenerate extent, the marker of a data point
\* equal to (xMin, yMin) is centred at (graphX0, graphY0 + graphHeight) and
\* the marker of a data point equal to (xMax, yMax) at
\* (graphX0 + graphWidth, graphY0).
C1_CornersMapToFrameCorners ==
    (Rendered /\ NonDegenerate /\ AllNumeric) =>
        \A k \in 1..Len(DataPoints) :
            /\ ( /\ PointX(DataPoints[k]) = call.maxAndMinValues.xMin
                 /\ PointY(DataPoints[k]) = call.maxAndMinValues.yMin )
               => /\ Markers[k].cx = call.graphX0
                  /\ Markers[k].cy = Add(call.graphY0, call.graphHeight)
            /\ ( /\ PointX(DataPoints[k]) = call.maxAndMinValues.xMax
                 /\ PointY(DataPoints[k]) = call.maxAndMinValues.yMax )
               => /\ Markers[k].cx = Add(call.graphX0, call.graphWidth)
                  /\ Markers[k].cy = call.graphY0

\* a render that drew both a point at (xMin, yMin) and a point at
\* (xMax, yMax) of a non-degenerate extent, in a frame with an area
C1_Witness ==
    /\ Rendered /\ NonDegenerate /\ AllNumeric
    /\ call.graphWidth.n # 0 /\ call.graphHeight.n # 0
    /\ \E k \in 1..Len(DataPoints) :
          /\ PointX(DataPoints[k]) = call.maxAndMinValues.xMin
          /\ PointY(DataPoints[k]) = call.maxAndMinValues.yMin
    /\ \E k \in 1..Len(DataPoints) :
          /\ PointX(DataPoints[k]) = call.maxAndMinValues.xMax
          /\ PointY(DataPoints[k]) = call.maxAndMinValues.yMax

\* the last call got as far as computing the extent
ExtentComputed == call.stage \in {"createGraphAxisText", "return"}

\* all x values and all y values of the caller's data set
AllX == {PointX(DataPoints[k]) : k \in 1..Len(DataPoints)}

AllY == {PointY(DataPoints[k]) : k \in 1..Len(DataPoints)}

\* m is the greatest (the least) number of the set S
IsMaximum(m, S) == m \in S /\ \A v \in S : LessEq(v, m)

IsMinimum(m, S) == m \in S /\ \A v \in S : LessEq(m, v)

Interval == call.verifiedSettings.graphAxisMarksInterval.v

Rank(e) ==
    CASE e.name = "frame" -> 1
      [] e.name \in {"biggerMark", "smallerMark"} -> 2
      [] e.name \in {"xGrid", "yGrid"} -> 3
      [] e.name = "point" -> 4
      [] e.name = "text" -> 5
      [] e.name \in {"xAxisLabel", "yAxisLabel"} -> 6

\* where the mapping of section 4.5 puts the data point p
PixelX(p) ==
    Add(call.graphX0,
        Mul(Sub(PointX(p), call.maxAndMinValues.xMin),
            Div(call.graphWidth,
                Sub(call.maxAndMinValues.xMax, call.maxAndMinValues.xMin))))

PixelY(p) ==
    Sub(call.graphY0,
        Mul(Sub(PointY(p), call.maxAndMinValues.yMax),
            Div(call.graphHeight,
                Sub(call.maxAndMinValues.yMax, call.maxAndMinValues.yMin))))

\* C4: a returned document holds the frame first, then the tick marks, then
\* the grid lines (there iff grid is true), then one marker per data point in
\* series order and point order, then the tick texts, and the two axis labels
\* last.
C4_CompositionOrder ==
    Rendered =>
        /\ Elements[1].name = "frame"
        /\ \A i \in 2..Len(Elements) : Rank(Elements[i]) >= 2
        /\ \A i \in 1..(Len(Elements) - 1) :
              Rank(Elements[i]) <= Rank(Elements[i + 1])
        /\ (\E i \in 1..Len(Elements) : Rank(Elements[i]) = 3)
              <=> call.verifiedSettings.grid = Bool(TRUE)
        /\ Len(Markers) = Len(DataPoints)
        /\ \A k \in 1..Len(DataPoints) :
              /\ Markers[k].stroke = Get(dataSet.v[DataPoints[k][1]], "color")
              /\ Markers[k].cx = PixelX(DataPoints[k])
              /\ Markers[k].cy = PixelY(DataPoints[k])
        /\ Elements[Len(Elements) - 1].name = "xAxisLabel"
        /\ Elements[Len(Elements)].name = "yAxisLabel"
        /\ \A i \in 1..(Len(Elements) - 2) : Rank(Elements[i]) < 6

\* a document with grid lines and the markers of two series, all at
\* different places
C4_Witness ==
    /\ Rendered
    /\ call.verifiedSettings.grid = Bool(TRUE)
    /\ \E i \in 1..Len(Elements) : Rank(Elements[i]) = 3
    /\ Len(dataSet.v) = 2
    /\ Len(Markers) = 3
    /\ \A j, k \in 1..Len(Markers) :
          j # k => <<Markers[j].cx, Markers[j].cy>> # <<Markers[k].cx, Markers[k].cy>>

\* the last call got as far as computing the frame
FrameComputed == call.stage \in {"createGraphAxisText", "return"}

\* the resolved settings of the last call lie in the documented ranges
InDocumentedRanges ==
    /\ Less(Q(0), call.verifiedSettings.width.v)
    /\ Less(Q(0), call.verifiedSettings.height.v)
    /\ Less(Q(0), call.verifiedSettings.fontSize.v)
    /\ LessEq(Q(0), call.verifiedSettings.graphFrameThickness.v)
    /\ LessEq(Q(0), call.verifiedSettings.graphFrameSetback.v)
    /\ Less(call.verifiedSettings.graphFrameSetback.v, Q(50))

\* C5: for settings in the documented ranges the frame has graphWidth >= 0
\* and graphHeight >= 0.
C5_FrameNeverNegative ==
    (FrameComputed /\ InDocumentedRanges) =>
        /\ LessEq(Q(0), call.graphWidth)
        /\ LessEq(Q(0), call.graphHeight)

\* the stages whose failure is a failure of settings resolution or of series
\* validation
ValidationFailed == call.stage \in {"verifySettings", "verifyDataSet"}

\* C6 as claimed: a failure of verifySettings or verifyDataSet reaches the
\* caller of newSVGScatterPlot as an error; the call does not complete
\* normally.
C6_FailureReachesCaller ==
    ValidationFailed => result.completion = "throw"

\* C6 as amended: a failure of verifySettings or verifyDataSet is caught by
\* newSVGScatterPlot, which logs the error to the console and completes
\* normally, returning undefined.
C6_FailureLoggedUndefinedReturned ==
    ValidationFailed =>
        /\ result.completion = "return"
        /\ result.value = Undefined
        /\ Len(console) = calls
        /\ call.stage = "verifySettings"
              => console[Len(console)] = "Invalid settings!"
        /\ call.stage = "verifyDataSet"
              => console[Len(console)] \in {"invalid data structure!",
                                            "TypeError"}

\* a call whose series validation failed on a series with x and y of
\* different lengths
C6_Witness ==
    /\ call.stage = "verifyDataSet"
    /\ dataSet.t = "array"
    /\ \E i \in 1..Len(dataSet.v) :
          /\ Truthy(dataSet.v[i])
          /\ Get(dataSet.v[i], "x").t = "array"
          /\ Get(dataSet.v[i], "y").t = "array"
          /\ Length(Get(dataSet.v[i], "x")) # Length(Get(dataSet.v[i], "y"))
    /\ result.value = Undefined
    /\ console # <<>>

\* the last call got past verifyDataSet
DataSetAccepted ==
    call.stage \in {"defineMaxAndMinValuesForData", "createGraphAxisText",
                    "return"}

\* C7: validation accepts no series that misses x or y, whose x or y is no
\* sequence of numbers, or whose x and y differ in length.
C7_ValidationRejectsMalformedSeries ==
    DataSetAccepted =>
        \A i \in 1..Len(dataSet.v) :
            /\ Truthy(dataSet.v[i])
            /\ Get(dataSet.v[i], "x").t = "array"
            /\ Get(dataSet.v[i], "y").t = "array"
            /\ Len(Get(dataSet.v[i], "x").v) = Len(Get(dataSet.v[i], "y").v)

\* the value the caller gave for a settings key
CallerValue(k) == IF settings.t = "object" THEN Get(settings, k) ELSE Undefined

\* verifySettings returned in the last call
SettingsResolved == call.stage \notin {"none", "verifySettings"}

\* C8: what verifySettings returns holds every key of defaultSettings with a
\* value of the type of its default: the default where the caller's value is
\* absent or falsy, the caller's value otherwise; and verifySettings fails
\* exactly when a truthy caller value has another type.
C8_ResolvedSettingsTypeMatch ==
    /\ SettingsResolved =>
          /\ DOMAIN call.verifiedSettings = KeySet
          /\ \A k \in KeySet :
                /\ TypeOf(call.verifiedSettings[k]) = TypeOf(defaultSettings[k])
                /\ ~Truthy(CallerValue(k))
                      => call.verifiedSettings[k] = defaultSettings[k]
                /\ Truthy(CallerValue(k))
                      => call.verifiedSettings[k] = CallerValue(k)
    /\ call.stage = "verifySettings" =>
          \E k \in KeySet :
              /\ Truthy(CallerValue(k))
              /\ TypeOf(CallerValue(k)) # TypeOf(defaultSettings[k])

\* settings resolved from an object that sets a key to a value of the right
\* type, leaves others out and carries an unrecognized key
C8_Witness ==
    /\ SettingsResolved
    /\ settings.t = "object"
    /\ "title" \in DOMAIN settings.props
    /\ call.verifiedSettings.graphAxisMarksInterval = Num(Q(2))
    /\ call.verifiedSettings.width = defaultSettings.width

\* C9: a call changes neither the caller's settings object nor any series
\* object of the caller's data set.
C9_CallLeavesInputsUnchanged ==
    [][dataSet' = dataSet /\ settings' = settings]_vars

\* C10: bigger marks are emitted only when biggerMarks resolved to true and
\* smaller marks only when smallerMarks resolved to true.
C10_MarksFollowFlags ==
    Rendered =>
        /\ call.verifiedSettings.smallerMarks = Bool(FALSE)
              => Count("smallerMark", "x") + Count("smallerMark", "y") = 0
        /\ call.verifiedSettings.biggerMarks = Bool(FALSE)
              => Count("biggerMark", "x") + Count("biggerMark", "y") = 0

\* the tick texts of the x axis and of the y axis, in document order
XTexts == Select(LAMBDA e : e.name = "text" /\ e.axis = "x")

YTexts == Select(LAMBDA e : e.name = "text" /\ e.axis = "y")

\* the extent of the last call has xMax > xMin and yMax > yMin
ExtentOrdered ==
    /\ Less(call.maxAndMinValues.xMin, call.maxAndMinValues.xMax)
    /\ Less(call.maxAndMinValues.yMin, call.maxAndMinValues.yMax)

\* i / N of the way from a to b
Interpolate(a, b, i) == Add(a, Div(Mul(Q(i), Sub(b, a)), Interval))

\* the marker createGraphPoints of the last call makes for the data point
\* (vx, vy)
MarkerOf(vx, vy) ==
    GraphPoint(call.verifiedSettings.pointSize, call.maxAndMinValues,
               call.graphX0, call.graphY0, call.graphHeight, call.graphWidth,
               Object([x |-> Arr(<<vx>>), y |-> Arr(<<vy>>)]), 1)

\* C11: for a positive integer N and an extent with xMax > xMin and
\* yMax > yMin, the i-th x tick text (i = 0..N) is placed at
\* x = graphX0 + i*graphWidth/N and shows xMin + i*(xMax - xMin)/N formatted to
\* xDecimalPlaces; the i-th y tick text is placed at the tick position
\* graphY0 + i*graphHeight/N (its y is that plus half the font size) and shows
\* yMax - i*(yMax - yMin)/N formatted to yDecimalPlaces.  So the x numbers
\* ascend from xMin to xMax, the y numbers descend from yMax to yMin, and the
\* number of every tick text, before it is formatted, is the data value that
\* createGraphPoints maps to the tick position.
C11_TickTextsInterpolateExtent ==
    (Rendered /\ ExtentOrdered /\ Interval.d = 1 /\ Interval.n >= 1) =>
        /\ Len(XTexts) = Interval.n + 1
        /\ Len(YTexts) = Interval.n + 1
        /\ \A i \in 0..Interval.n :
              /\ XTexts[i + 1].x =
                    Interpolate(call.graphX0,
                                Add(call.graphX0, call.graphWidth), i)
              /\ XTexts[i + 1].number =
                    Interpolate(call.maxAndMinValues.xMin,
                                call.maxAndMinValues.xMax, i)
              /\ XTexts[i + 1].textContent =
                    toFixed(Interpolate(call.maxAndMinValues.xMin,
                                        call.maxAndMinValues.xMax, i),
                            call.verifiedSettings.xDecimalPlaces.v)
              /\ YTexts[i + 1].y =
                    Add(Interpolate(call.graphY0,
                                    Add(call.graphY0, call.graphHeight), i),
                        Div(call.verifiedSettings.fontSize.v, Q(2)))
              /\ YTexts[i + 1].number =
                    Interpolate(call.maxAndMinValues.yMax,
                                call.maxAndMinValues.yMin, i)
              /\ YTexts[i + 1].textContent =
                    toFixed(Interpolate(call.maxAndMinValues.yMax,
                                        call.maxAndMinValues.yMin, i),
                            call.verifiedSettings.yDecimalPlaces.v)
              /\ MarkerOf(XTexts[i + 1].number, YTexts[i + 1].number).cx =
                    XTexts[i + 1].x
              /\ MarkerOf(XTexts[i + 1].number, YTexts[i + 1].number).cy =
                    Sub(YTexts[i + 1].y,
                        Div(call.verifiedSettings.fontSize.v, Q(2)))
        /\ XTexts[1].number = call.maxAndMinValues.xMin
        /\ XTexts[Interval.n + 1].number = call.maxAndMinValues.xMax
        /\ YTexts[1].number = call.maxAndMinValues.yMax
        /\ YTexts[Interval.n + 1].number = call.maxAndMinValues.yMin
        /\ \A i \in 1..Interval.n :
              /\ Less(XTexts[i].number, XTexts[i + 1].number)
              /\ Less(YTexts[i + 1].number, YTexts[i].number)

\* a render with 3 intervals in a frame with an area, whose x and y steps are
\* no whole numbers, so that a tick text shows a number other than the one it
\* was formatted from
C11_Witness ==
    /\ Rendered /\ ExtentOrdered
    /\ Interval = Q(3)
    /\ Less(Q(0), call.graphWidth) /\ Less(Q(0), call.graphHeight)
    /\ Len(XTexts) = 4 /\ Len(YTexts) = 4
    /\ XTexts[2].number.d # 1 /\ YTexts[2].number.d # 1
    /\ XTexts[2].textContent # XTexts[2].number
    /\ Less(XTexts[1].x, XTexts[4].x)
    /\ Less(YTexts[1].y, YTexts[4].y)

\* the frame of the last call has a positive width and a positive height
FramePositive ==
    /\ Less(Q(0), call.graphWidth)
    /\ Less(Q(0), call.graphHeight)

\* the point (x, y) lies in the closed rectangle of the frame
InPlotRectangle(x, y) ==
    /\ LessEq(call.graphX0, x)
    /\ LessEq(x, Add(call.graphX0, call.graphWidth))
    /\ LessEq(call.graphY0, y)
    /\ LessEq(y, Add(call.graphY0, call.graphHeight))

\* C12: in a render whose extent has xMax > xMin and yMax > yMin and whose
\* frame has a positive width and height, the centre of every marker lies in
\* the closed plot rectangle: graphX0 <= cx <= graphX0 + graphWidth and
\* graphY0 <= cy <= graphY0 + graphHeight.
C12_MarkersInsideFrame ==
    (Rendered /\ ExtentOrdered /\ FramePositive) =>
        \A k \in 1..Len(Markers) : InPlotRectangle(Markers[k].cx, Markers[k].cy)

====
